---- MODULE Spec2Model ----
(***************************************************************************)
(* Model of homework.py: the fitness tracker's training classes            *)
(* (Training, Running, SportsWalking, Swimming), the InfoMessage           *)
(* formatter, the read_package dispatcher and main.                        *)
(*                                                                         *)
(* Numbers.  The program computes with Python ints and floats.  The model  *)
(* computes the same expressions, in the same order, on exact rationals:   *)
(* a number is [kind |-> "num", sg, n, d] with sign sg, and numerator n    *)
(* and denominator d held as little-endian limb sequences (the values      *)
(* do not fit 32-bit integers).  Binary rounding of floats is not          *)
(* modelled.  Rationals are not reduced; they are compared with REq.       *)
(***************************************************************************)
EXTENDS Integers, Sequences, FiniteSets, TLC

(***************************************************************************)
(* Natural numbers of any size: little-endian limbs, no high zero limb.    *)
(***************************************************************************)
Base == 10 ^ 4

RECURSIVE BFromNat(_)
BFromNat(k) == IF k = 0 THEN <<>> ELSE <<k % Base>> \o BFromNat(k \div Base)

RECURSIVE BNorm(_)
BNorm(a) ==
    IF a = <<>> THEN <<>>
    ELSE IF a[Len(a)] = 0 THEN BNorm(SubSeq(a, 1, Len(a) - 1))
    ELSE a

RECURSIVE BAddC(_, _, _)
BAddC(a, b, c) ==
    IF a = <<>> /\ b = <<>> THEN (IF c = 0 THEN <<>> ELSE <<c>>)
    ELSE LET x == IF a = <<>> THEN 0 ELSE Head(a)
             y == IF b = <<>> THEN 0 ELSE Head(b)
             s == x + y + c
         IN  <<s % Base>> \o BAddC(IF a = <<>> THEN a ELSE Tail(a),
                                   IF b = <<>> THEN b ELSE Tail(b),
                                   s \div Base)

BAdd(a, b) == BAddC(a, b, 0)

\* a - b for a >= b, before the high zero limbs are dropped
RECURSIVE BSubC(_, _, _)
BSubC(a, b, c) ==
    IF a = <<>> THEN <<>>
    ELSE LET y == IF b = <<>> THEN 0 ELSE Head(b)
             s == Head(a) - y - c
         IN  <<IF s < 0 THEN s + Base ELSE s>>
                 \o BSubC(Tail(a), IF b = <<>> THEN b ELSE Tail(b),
                          IF s < 0 THEN 1 ELSE 0)

BSub(a, b) == BNorm(BSubC(a, b, 0))

\* -1, 0, 1 as a < b, a = b, a > b
RECURSIVE BCmpAt(_, _, _)
BCmpAt(a, b, i) ==
    IF i = 0 THEN 0
    ELSE IF a[i] < b[i] THEN -1
    ELSE IF a[i] > b[i] THEN 1
    ELSE BCmpAt(a, b, i - 1)

BCmp(a, b) ==
    IF Len(a) < Len(b) THEN -1
    ELSE IF Len(a) > Len(b) THEN 1
    ELSE BCmpAt(a, b, Len(a))

\* a * k + c for a limb k
RECURSIVE BMulSmall(_, _, _)
BMulSmall(a, k, c) ==
    IF a = <<>> THEN (IF c = 0 THEN <<>> ELSE <<c>>)
    ELSE LET s == Head(a) * k + c
         IN  <<s % Base>> \o BMulSmall(Tail(a), k, s \div Base)

RECURSIVE BMul(_, _)
BMul(a, b) ==
    IF a = <<>> \/ b = <<>> THEN <<>>
    ELSE IF Len(b) = 1 THEN (IF b[1] = 1 THEN a ELSE BMulSmall(a, b[1], 0))
    ELSE IF Len(a) = 1 THEN (IF a[1] = 1 THEN b ELSE BMulSmall(b, a[1], 0))
    ELSE BAdd(BMulSmall(a, Head(b), 0), <<0>> \o BMul(a, Tail(b)))

\* the largest limb q in lo .. hi - 1 with q * b <= a
RECURSIVE BDigitSearch(_, _, _, _)
BDigitSearch(a, b, lo, hi) ==
    IF hi - lo <= 1 THEN lo
    ELSE LET mid == (lo + hi) \div 2
         IN  IF BCmp(BMul(BFromNat(mid), b), a) <= 0
             THEN BDigitSearch(a, b, mid, hi)
             ELSE BDigitSearch(a, b, lo, mid)

\* long division of the limbs a[i], a[i+1], ... by b > 0: quotient q, remainder r
RECURSIVE BDivMod(_, _, _)
BDivMod(a, b, i) ==
    IF i > Len(a) THEN [q |-> <<>>, r |-> <<>>]
    ELSE LET hi  == BDivMod(a, b, i + 1)
             cur == BNorm(<<a[i]>> \o hi.r)
             dig == IF BCmp(cur, b) < 0 THEN 0 ELSE BDigitSearch(cur, b, 0, Base)
         IN  [q |-> BNorm(<<dig>> \o hi.q),
              r |-> IF dig = 0 THEN cur ELSE BSub(cur, BMul(BFromNat(dig), b))]

(***************************************************************************)
(* Python values: a number, None, or a raised exception that propagates    *)
(* out of the expression being evaluated.                                  *)
(***************************************************************************)
None == [kind |-> "None"]

Raise(e) == [kind |-> "raise", exc |-> e]

IsNum(x) == x.kind = "num"

IsRaise(x) == x.kind = "raise"

Rat(sg, n, d) == [kind |-> "num", sg |-> IF n = <<>> THEN 0 ELSE sg, n |-> n, d |-> d]

\* an int literal or an int field
FromInt(k) == Rat(IF k < 0 THEN -1 ELSE 1, BFromNat(IF k < 0 THEN -k ELSE k), <<1>>)

\* a decimal literal m / 10^e, as the source writes its float constants
Dec(m, e) == Rat(1, BFromNat(m), BFromNat(10 ^ e))

IsZero(x) == x.sg = 0

REq(x, y) == x.sg = y.sg /\ BMul(x.n, y.d) = BMul(y.n, x.d)

\* x * y
Mul(x, y) ==
    IF IsRaise(x) THEN x ELSE IF IsRaise(y) THEN y
    ELSE Rat(x.sg * y.sg, BMul(x.n, y.n), BMul(x.d, y.d))

\* Div with the zero divisor answered by 0 instead of an exception
Div_unchecked(x, y) ==
    IF IsRaise(x) THEN x ELSE IF IsRaise(y) THEN y
    ELSE IF IsZero(y) THEN Rat(0, <<>>, <<1>>)
    ELSE Rat(x.sg * y.sg, BMul(x.n, y.d), BMul(x.d, y.n))

\* x / y: Python raises ZeroDivisionError for a zero divisor
Div(x, y) ==
    IF IsRaise(x) THEN x ELSE IF IsRaise(y) THEN y
    ELSE IF IsZero(y) THEN Raise("ZeroDivisionError")
    ELSE Rat(x.sg * y.sg, BMul(x.n, y.d), BMul(x.d, y.n))

\* x + y
Add(x, y) ==
    IF IsRaise(x) THEN x ELSE IF IsRaise(y) THEN y
    ELSE LET a == BMul(x.n, y.d)
             b == BMul(y.n, x.d)
             d == BMul(x.d, y.d)
         IN  IF x.sg = 0 THEN y
             ELSE IF y.sg = 0 THEN x
             ELSE IF x.sg = y.sg THEN Rat(x.sg, BAdd(a, b), d)
             ELSE IF BCmp(a, b) >= 0 THEN Rat(x.sg, BSub(a, b), d)
             ELSE Rat(y.sg, BSub(b, a), d)

\* x ** 2
Square(x) == Mul(x, x)

(***************************************************************************)
(* f"{x:.3f}": the decimal expansion of x rounded to three places, ties to *)
(* even, with the sign of x kept; None has no such format.                 *)
(***************************************************************************)
Pad3(k) ==
    IF k < 10 THEN "00" \o ToString(k)
    ELSE IF k < 100 THEN "0" \o ToString(k)
    ELSE ToString(k)

PadLimb(k) == IF k < 1000 THEN "0" \o Pad3(k) ELSE ToString(k)

RECURSIVE BLowLimbs(_, _)
BLowLimbs(a, i) == IF i = 0 THEN "" ELSE PadLimb(a[i]) \o BLowLimbs(a, i - 1)

BToString(a) ==
    IF a = <<>> THEN "0"
    ELSE ToString(a[Len(a)]) \o BLowLimbs(a, Len(a) - 1)

\* the thousandths nearest to n / d, given floor and remainder of 1000 n / d
RoundHalfEven(qr, d) ==
    IF \/ BCmp(BMul(qr.r, <<2>>), d) > 0
       \/ BCmp(BMul(qr.r, <<2>>), d) = 0 /\ qr.q # <<>> /\ qr.q[1] % 2 = 1
    THEN BAdd(qr.q, <<1>>)
    ELSE qr.q

\* the digits of w.q thousands and w.r thousandths
Fixed3(sg, w) ==
    [kind |-> "str",
     s |-> (IF sg < 0 THEN "-" ELSE "") \o BToString(w.q) \o "."
           \o Pad3(IF w.r = <<>> THEN 0 ELSE w.r[1])]

Format3f(x) ==
    IF IsRaise(x) THEN x
    ELSE IF ~IsNum(x) THEN Raise("TypeError")
    ELSE Fixed3(x.sg,
                BDivMod(RoundHalfEven(BDivMod(BMul(x.n, BFromNat(1000)), x.d, 1),
                                      x.d),
                        BFromNat(1000), 1))

(***************************************************************************)
(* class InfoMessage                                                       *)
(***************************************************************************)
\* InfoMessage with distance and speed stored in each other's attribute
InfoMessage_swapped(training_type, duration, distance, speed, calories) ==
    IF IsRaise(distance) THEN distance
    ELSE IF IsRaise(speed) THEN speed
    ELSE IF IsRaise(calories) THEN calories
    ELSE [kind |-> "InfoMessage",
          training_type |-> training_type,
          duration |-> duration,
          distance |-> speed,
          speed |-> distance,
          calories |-> calories]

\* An argument whose evaluation raised leaves the call, leftmost first.
InfoMessage(training_type, duration, distance, speed, calories) ==
    IF IsRaise(distance) THEN distance
    ELSE IF IsRaise(speed) THEN speed
    ELSE IF IsRaise(calories) THEN calories
    ELSE [kind |-> "InfoMessage",
          training_type |-> training_type,
          duration |-> duration,
          distance |-> distance,
          speed |-> speed,
          calories |-> calories]

\* The f-string: its fields are formatted left to right and the first that
\* cannot be formatted raises.  The Cyrillic literal text of the template is
\* written here in ASCII.
FString(training_type, duration, distance, speed, calories) ==
    IF IsRaise(duration) THEN duration
    ELSE IF IsRaise(distance) THEN distance
    ELSE IF IsRaise(speed) THEN speed
    ELSE IF IsRaise(calories) THEN calories
    ELSE [kind |-> "str",
          s |-> "Tip trenirovki: " \o training_type
                \o "; Dlitel'nost': " \o duration.s \o " ch.; "
                \o "Distantsiya: " \o distance.s \o " km; "
                \o "Sr. skorost': " \o speed.s \o " km/ch; "
                \o "Potracheno kkal: " \o calories.s \o "."]

get_message(self) ==
    FString(self.training_type, Format3f(self.duration), Format3f(self.distance),
            Format3f(self.speed), Format3f(self.calories))

(***************************************************************************)
(* class Training and its subclasses.  An object is a record of its class  *)
(* name and its attributes; the attributes hold the ints of the package.   *)
(***************************************************************************)
MINS_IN_HOUR == 60

M_IN_KM == 1000

LEN_STEP(cls) == IF cls = "Swimming" THEN Dec(138, 2) ELSE Dec(65, 2)

Running_CALORIES_MEAN_SPEED_MULTIPLIER == 18

Running_CALORIES_MEAN_SPEED_SHIFT == Dec(179, 2)

CALORIES_WEIGHT_MULTIPLIER == Dec(35, 3)

CALORIES_SPEED_MULTIPLIER == Dec(29, 3)

COEF_KMH_TO_MS == Dec(278, 3)

SM_IN_METR == 100

Swimming_CALORIES_MEAN_SPEED_MULTIPLIER == 2

Swimming_CALORIES_MEAN_SPEED_SHIFT == Dec(11, 1)

Training_init(self, action, duration, weight) ==
    [action |-> action, duration |-> duration, weight |-> weight] @@ self

Running_init(self, action, duration, weight) ==
    Training_init(self, action, duration, weight)

SportsWalking_init(self, action, duration, weight, height) ==
    [height |-> height] @@ Training_init(self, action, duration, weight)

\* Swimming.__init__ with the two pool attributes exchanged
Swimming_init_swapped(self, action, duration, weight, length_pool, count_pool) ==
    [length_pool |-> count_pool, count_pool |-> length_pool]
        @@ Training_init(self, action, duration, weight)

Swimming_init(self, action, duration, weight, length_pool, count_pool) ==
    [length_pool |-> length_pool, count_pool |-> count_pool]
        @@ Training_init(self, action, duration, weight)

get_distance(self) ==
    Div(Mul(FromInt(self.action), LEN_STEP(self.cls)), FromInt(M_IN_KM))

Training_get_mean_speed(self) ==
    Div(get_distance(self), FromInt(self.duration))

\* Swimming without its override of get_mean_speed
Swimming_get_mean_speed_inherited(self) == Training_get_mean_speed(self)

Swimming_get_mean_speed(self) ==
    Div(Div(Mul(FromInt(self.length_pool), FromInt(self.count_pool)),
            FromInt(M_IN_KM)),
        FromInt(self.duration))

\* method resolution: Swimming overrides, the others inherit
get_mean_speed(self) ==
    IF self.cls = "Swimming" THEN Swimming_get_mean_speed(self)
    ELSE Training_get_mean_speed(self)

\* the body is pass: the call returns None
Training_get_spent_calories(self) == None

\* Running with the earlier formula (18 * speed - 20) of the exercise
Running_get_spent_calories_old(self) ==
    Mul(Mul(Div(Mul(Add(Mul(FromInt(Running_CALORIES_MEAN_SPEED_MULTIPLIER),
                            get_mean_speed(self)),
                        FromInt(-20)),
                    FromInt(self.weight)),
                FromInt(M_IN_KM)),
            FromInt(self.duration)),
        FromInt(MINS_IN_HOUR))

Running_get_spent_calories(self) ==
    Mul(Mul(Div(Mul(Add(Mul(FromInt(Running_CALORIES_MEAN_SPEED_MULTIPLIER),
                            get_mean_speed(self)),
                        Running_CALORIES_MEAN_SPEED_SHIFT),
                    FromInt(self.weight)),
                FromInt(M_IN_KM)),
            FromInt(self.duration)),
        FromInt(MINS_IN_HOUR))

\* SportsWalking with the speed in m/s not squared
SportsWalking_get_spent_calories_unsquared(self) ==
    LET mean_speed_ms == Mul(get_mean_speed(self), COEF_KMH_TO_MS)
        height_m      == Div(FromInt(self.height), FromInt(SM_IN_METR))
    IN  Mul(Mul(Add(Mul(CALORIES_WEIGHT_MULTIPLIER, FromInt(self.weight)),
                    Mul(Mul(Div(mean_speed_ms, height_m),
                            CALORIES_SPEED_MULTIPLIER),
                        FromInt(self.weight))),
                FromInt(self.duration)),
            FromInt(MINS_IN_HOUR))

SportsWalking_get_spent_calories(self) ==
    LET mean_speed_ms == Mul(get_mean_speed(self), COEF_KMH_TO_MS)
        height_m      == Div(FromInt(self.height), FromInt(SM_IN_METR))
    IN  Mul(Mul(Add(Mul(CALORIES_WEIGHT_MULTIPLIER, FromInt(self.weight)),
                    Mul(Mul(Div(Square(mean_speed_ms), height_m),
                            CALORIES_SPEED_MULTIPLIER),
                        FromInt(self.weight))),
                FromInt(self.duration)),
            FromInt(MINS_IN_HOUR))

Swimming_get_spent_calories(self) ==
    Mul(Mul(Mul(Add(get_mean_speed(self), Swimming_CALORIES_MEAN_SPEED_SHIFT),
                FromInt(Swimming_CALORIES_MEAN_SPEED_MULTIPLIER)),
            FromInt(self.weight)),
        FromInt(self.duration))

get_spent_calories(self) ==
    CASE self.cls = "Running" -> Running_get_spent_calories(self)
      [] self.cls = "SportsWalking" -> SportsWalking_get_spent_calories(self)
      [] self.cls = "Swimming" -> Swimming_get_spent_calories(self)
      [] OTHER -> Training_get_spent_calories(self)

show_training_info(self) ==
    InfoMessage(self.cls, FromInt(self.duration), get_distance(self),
                get_mean_speed(self), get_spent_calories(self))

\* a call where get_spent_calories converts self.duration to minutes in place
Call_inplace(self, method) ==
    [self |-> IF method = "get_spent_calories"
              THEN [self EXCEPT !.duration = @ * MINS_IN_HOUR]
              ELSE self,
     out  |-> CASE method = "get_distance" -> get_distance(self)
                [] method = "get_mean_speed" -> get_mean_speed(self)
                [] method = "get_spent_calories" -> get_spent_calories(self)
                [] method = "show_training_info" -> show_training_info(self)]

\* A method call on an object: the object after the call and what the call
\* returned or raised.  No method of Training assigns an attribute.
Call(self, method) ==
    [self |-> self,
     out  |-> CASE method = "get_distance" -> get_distance(self)
                [] method = "get_mean_speed" -> get_mean_speed(self)
                [] method = "get_spent_calories" -> get_spent_calories(self)
                [] method = "show_training_info" -> show_training_info(self)]

(***************************************************************************)
(* Construction and read_package                                           *)
(***************************************************************************)
\* the positional parameters of each __init__, after self
Params(cls) ==
    CASE cls = "Training" -> <<"action", "duration", "weight">>
      [] cls = "Running" -> <<"action", "duration", "weight">>
      [] cls = "SportsWalking" -> <<"action", "duration", "weight", "height">>
      [] cls = "Swimming" ->
            <<"action", "duration", "weight", "length_pool", "count_pool">>

\* construction that drops surplus arguments and fills missing ones with 0
New_lenient(cls, data) ==
    LET self == [kind |-> "object", cls |-> cls]
        arg(k) == IF k <= Len(data) THEN data[k] ELSE 0
    IN  CASE cls = "Training" ->
                Training_init(self, arg(1), arg(2), arg(3))
          [] cls = "Running" ->
                Running_init(self, arg(1), arg(2), arg(3))
          [] cls = "SportsWalking" ->
                SportsWalking_init(self, arg(1), arg(2), arg(3), arg(4))
          [] cls = "Swimming" ->
                Swimming_init(self, arg(1), arg(2), arg(3), arg(4), arg(5))

\* cls(*data): Python binds the arguments to the parameters before the body
\* runs and raises TypeError when their numbers differ.
New(cls, data) ==
    LET self == [kind |-> "object", cls |-> cls]
    IN  IF Len(data) # Len(Params(cls)) THEN Raise("TypeError")
        ELSE CASE cls = "Training" ->
                    Training_init(self, data[1], data[2], data[3])
               [] cls = "Running" ->
                    Running_init(self, data[1], data[2], data[3])
               [] cls = "SportsWalking" ->
                    SportsWalking_init(self, data[1], data[2], data[3], data[4])
               [] cls = "Swimming" ->
                    Swimming_init(self, data[1], data[2], data[3], data[4],
                                  data[5])

workout_types ==
    [SWM |-> "Swimming", RUN |-> "Running", WLK |-> "SportsWalking"]

\* a code that is no key falls off the end of the function: None is returned
read_package(workout_type, data) ==
    IF workout_type \in DOMAIN workout_types
    THEN New(workout_types[workout_type], data)
    ELSE None

\* info.get_message(), unless the call that was to give info raised
Render(info_) == IF IsRaise(info_) THEN info_ ELSE get_message(info_)

\* print(text): what main returned or raised, and the line it printed (if any)
PrintLine(text) ==
    IF IsRaise(text) THEN [out |-> text, printed |-> <<>>]
    ELSE [out |-> None, printed |-> <<text.s>>]

\* None has no attribute show_training_info
main(training_) ==
    IF training_ = None
    THEN [out |-> Raise("AttributeError"), printed |-> <<>>]
    ELSE PrintLine(Render(show_training_info(training_)))

(***************************************************************************)
(* The packages of __main__, and the bounded inputs of the model           *)
(***************************************************************************)
packages ==
    << <<"SWM", <<720, 1, 80, 25, 40>> >>,
       <<"RUN", <<15000, 1, 75>> >>,
       <<"WLK", <<9000, 1, 75, 180>> >> >>

Examples == {packages[k] : k \in DOMAIN packages}

MaxVal == 2

FieldVals == -1 .. MaxVal

\* one field more than the longest parameter list
MaxFields == Len(Params("Swimming")) + 1

DataLists == UNION {[1 .. n -> FieldVals] : n \in 0 .. MaxFields}

Codes == {"SWM", "RUN", "WLK", "XXX"}

Inputs == Examples \cup (Codes \X DataLists)

Slots == {1, 2}

(***************************************************************************)
(* State                                                                   *)
(***************************************************************************)
VARIABLES
    training,   \* slot -> the object bound there, None, or Unbound
    last,       \* the last operation: its name, slot, arguments and outcome
    info,       \* the InfoMessage the caller holds, or None
    stdout      \* the lines printed

vars == <<training, last, info, stdout>>

Unbound == [kind |-> "unbound"]

Op(op, slot, args, out) == [op |-> op, slot |-> slot, args |-> args, out |-> out]

\* An exception no one catches ends the program; main(training) is the last
\* statement run.
Live == last.out.kind # "raise" /\ last.op # "main"

Init ==
    /\ training = [i \in Slots |-> Unbound]
    /\ last = Op("start", 0, <<>>, None)
    /\ info = None
    /\ stdout = <<>>

\* training = read_package(workout_type, data), the package drawn from P
ReadPackage(i, P) ==
    /\ Live
    /\ training[i] = Unbound
    /\ \E p \in P :
         LET out == read_package(p[1], p[2])
         IN  /\ last' = Op("read_package", i, p, out)
             /\ training' = IF IsRaise(out) THEN training
                            ELSE [training EXCEPT ![i] = out]
    /\ info' = None
    /\ UNCHANGED stdout

\* training = Training(*data): the base class built directly
NewTraining(i) ==
    /\ Live
    /\ training[i] = Unbound
    /\ \E data \in DataLists :
         LET out == New("Training", data)
         IN  /\ last' = Op("Training", i, <<"Training", data>>, out)
             /\ training' = IF IsRaise(out) THEN training
                            ELSE [training EXCEPT ![i] = out]
    /\ info' = None
    /\ UNCHANGED stdout

\* training.get_distance()
GetDistance(i) ==
    /\ Live
    /\ training[i].kind = "object"
    /\ LET c == Call(training[i], "get_distance")
       IN  /\ training' = [training EXCEPT ![i] = c.self]
           /\ last' = Op("get_distance", i, <<>>, c.out)
    /\ info' = None
    /\ UNCHANGED stdout

\* training.get_mean_speed()
GetMeanSpeed(i) ==
    /\ Live
    /\ training[i].kind = "object"
    /\ LET c == Call(training[i], "get_mean_speed")
       IN  /\ training' = [training EXCEPT ![i] = c.self]
           /\ last' = Op("get_mean_speed", i, <<>>, c.out)
    /\ info' = None
    /\ UNCHANGED stdout

\* training.get_spent_calories()
GetSpentCalories(i) ==
    /\ Live
    /\ training[i].kind = "object"
    /\ LET c == Call(training[i], "get_spent_calories")
       IN  /\ training' = [training EXCEPT ![i] = c.self]
           /\ last' = Op("get_spent_calories", i, <<>>, c.out)
    /\ info' = None
    /\ UNCHANGED stdout

\* info = training.show_training_info()
ShowTrainingInfo(i) ==
    /\ Live
    /\ training[i].kind = "object"
    /\ LET c == Call(training[i], "show_training_info")
       IN  /\ training' = [training EXCEPT ![i] = c.self]
           /\ last' = Op("show_training_info", i, <<>>, c.out)
           /\ info' = IF IsRaise(c.out) THEN None ELSE c.out
    /\ UNCHANGED stdout

\* info.get_message()
GetMessage ==
    /\ Live
    /\ info # None
    /\ last' = Op("get_message", last.slot, <<>>, get_message(info))
    /\ UNCHANGED <<training, info, stdout>>

\* main(training)
Main(i) ==
    /\ Live
    /\ training[i] # Unbound
    /\ LET m == main(training[i])
       IN  /\ last' = Op("main", i, <<>>, m.out)
           /\ stdout' = stdout \o m.printed
    /\ info' = None
    /\ UNCHANGED training

\* one training, built from any bounded input
Next ==
    \/ ReadPackage(1, Inputs)
    \/ NewTraining(1)
    \/ GetDistance(1)
    \/ GetMeanSpeed(1)
    \/ GetSpentCalories(1)
    \/ ShowTrainingInfo(1)
    \/ GetMessage
    \/ Main(1)

Spec == Init /\ [][Next]_vars

\* two trainings, each built from a package of __main__
NextTwo ==
    \/ \E i \in Slots : ReadPackage(i, Examples)
    \/ \E i \in Slots : GetDistance(i)
    \/ \E i \in Slots : GetMeanSpeed(i)
    \/ \E i \in Slots : GetSpentCalories(i)
    \/ \E i \in Slots : ShowTrainingInfo(i)
    \/ GetMessage
    \/ \E i \in Slots : Main(i)

SpecTwo == Init /\ [][NextTwo]_vars

(***************************************************************************)
(* Properties.  The record an operation acted on is Rec; what the          *)
(* specification of the program says is written out independently of the   *)
(* operators above (arities, variants and formulas as the specification     *)
(* lists them).                                                             *)
(***************************************************************************)
Rec == training[last.slot]

Code == last.args[1]

Data == last.args[2]

Returned == ~IsRaise(last.out)

Methods == {"get_distance", "get_mean_speed", "get_spent_calories",
            "show_training_info"}

OnObject(op) == last.op = op /\ Rec.kind = "object"

RecognizedCodes == {"SWM", "RUN", "WLK"}

Concrete == {"Running", "SportsWalking", "Swimming"}

SpecArity(code) ==
    CASE code = "RUN" -> 3 [] code = "WLK" -> 4 [] code = "SWM" -> 5

SpecVariant(code) ==
    CASE code = "RUN" -> "Running"
      [] code = "WLK" -> "SportsWalking"
      [] code = "SWM" -> "Swimming"

SpecFields(code) ==
    {"kind", "cls", "action", "duration", "weight"}
        \cup (IF code = "WLK" THEN {"height"} ELSE {})
        \cup (IF code = "SWM" THEN {"length_pool", "count_pool"} ELSE {})

Example(k) == read_package(packages[k][1], packages[k][2])

\* C1: read_package with a code other than SWM, RUN, WLK ends in an error and
\* never returns normally (neither a record nor None).
C1_InvalidCodeRaises ==
    (last.op = "read_package" /\ Code \notin RecognizedCodes) => ~Returned

\* C2: read_package with a recognized code and a field list whose length is
\* not the variant's arity raises, and no record is bound.
C2_ArityMismatchRaises ==
    (/\ last.op = "read_package"
     /\ Code \in RecognizedCodes
     /\ Len(Data) # SpecArity(Code))
        => /\ last.out = Raise("TypeError")
           /\ training[last.slot] = Unbound

C2_Witness ==
    /\ last.op = "read_package"
    /\ Code = "SWM"
    /\ Len(Data) = SpecArity("SWM") + 1
    /\ last.out = Raise("TypeError")

\* C3: read_package with a recognized code and a list of the matching arity
\* returns an object of the mapped class whose attributes are the list's
\* elements in position order, and nothing else.
C3_PositionalFields ==
    (/\ last.op = "read_package"
     /\ Code \in RecognizedCodes
     /\ Len(Data) = SpecArity(Code))
        => /\ last.out.kind = "object"
           /\ training[last.slot] = last.out
           /\ last.out.cls = SpecVariant(Code)
           /\ DOMAIN last.out = SpecFields(Code)
           /\ last.out.action = Data[1]
           /\ last.out.duration = Data[2]
           /\ last.out.weight = Data[3]
           /\ Code = "WLK" => last.out.height = Data[4]
           /\ Code = "SWM" => /\ last.out.length_pool = Data[4]
                              /\ last.out.count_pool = Data[5]

C3_Witness ==
    /\ last.op = "read_package"
    /\ Code = "SWM"
    /\ Len(Data) = 5
    /\ Data[4] # Data[5]
    /\ last.out.kind = "object"
    /\ last.out.length_pool = Data[4]

\* C4: get_spent_calories on an object of the base class Training raises and
\* never returns a value, so show_training_info on it gives no InfoMessage.
C4_BaseCaloriesRaises ==
    /\ (OnObject("get_spent_calories") /\ Rec.cls = "Training") => ~Returned
    /\ (OnObject("show_training_info") /\ Rec.cls = "Training") => ~Returned

\* C5: a Swimming object with duration > 0 has mean speed
\* length_pool * count_pool / 1000 / duration whatever its action (so has its
\* calories), Running and SportsWalking have distance / duration, and the
\* package SWM [720, 1, 80, 25, 40] has mean speed 1 and calories 336.
C5_SwimmingSpeed ==
    /\ (OnObject("get_mean_speed") /\ Rec.duration > 0 /\ Rec.cls = "Swimming")
        => /\ IsNum(last.out)
           /\ REq(Mul(last.out, FromInt(1000 * Rec.duration)),
                  FromInt(Rec.length_pool * Rec.count_pool))
           /\ \A a \in FieldVals \cup {720} :
                REq(get_mean_speed([Rec EXCEPT !.action = a]), last.out)
    /\ (OnObject("get_spent_calories") /\ Rec.duration > 0
            /\ Rec.cls = "Swimming")
        => /\ IsNum(last.out)
           /\ \A a \in FieldVals \cup {720} :
                REq(get_spent_calories([Rec EXCEPT !.action = a]), last.out)
    /\ (OnObject("get_mean_speed") /\ Rec.duration > 0
            /\ Rec.cls \in {"Running", "SportsWalking"})
        => /\ IsNum(last.out)
           /\ REq(Mul(last.out, FromInt(Rec.duration)), get_distance(Rec))
    /\ (OnObject("get_mean_speed") /\ Rec = Example(1))
        => REq(last.out, FromInt(1))
    /\ (OnObject("get_spent_calories") /\ Rec = Example(1))
        => REq(last.out, FromInt(336))

C5_Witness ==
    /\ OnObject("get_spent_calories")
    /\ Rec = Example(1)
    /\ REq(last.out, FromInt(336))

\* C6 as amended: the package RUN [15000, 1, 75] has distance 9.75, mean
\* speed 9.75 and calories (18*9.75+1.79)*75/1000*1*60 = 797.805, printed as
\* 797.805.
C6_RunningExample ==
    /\ (OnObject("get_distance") /\ Rec = Example(2))
        => REq(last.out, Dec(975, 2))
    /\ (OnObject("get_mean_speed") /\ Rec = Example(2))
        => REq(last.out, Dec(975, 2))
    /\ (OnObject("get_spent_calories") /\ Rec = Example(2))
        => /\ REq(Mul(last.out, FromInt(1000)),
                  Mul(Add(Mul(FromInt(18), Dec(975, 2)), Dec(179, 2)),
                      FromInt(75 * 1 * 60)))
           /\ Format3f(last.out).s = "797.805"

C6_Witness ==
    /\ OnObject("get_spent_calories")
    /\ Rec = Example(2)
    /\ Format3f(last.out).s = "797.805"

\* C6 as stated: the same, with the calories 801.234 to three decimals.
C6_Original ==
    /\ (OnObject("get_distance") /\ Rec = Example(2))
        => REq(last.out, Dec(975, 2))
    /\ (OnObject("get_mean_speed") /\ Rec = Example(2))
        => REq(last.out, Dec(975, 2))
    /\ (OnObject("get_spent_calories") /\ Rec = Example(2))
        => /\ REq(Mul(last.out, FromInt(1000)),
                  Mul(Add(Mul(FromInt(18), Dec(975, 2)), Dec(179, 2)),
                      FromInt(75 * 1 * 60)))
           /\ Format3f(last.out).s = "801.234"

\* what the specification's table gives for the calories of r at mean speed v,
\* each formula cleared of its divisions: the pair of sides that must be equal
TableSides(r, v, calories) ==
    CASE r.cls = "Running" ->
            \* calories = (18 v + 1.79) * weight / 1000 * duration * 60
            <<Mul(calories, FromInt(1000)),
              Mul(Add(Mul(FromInt(18), v), Dec(179, 2)),
                  FromInt(r.weight * r.duration * 60))>>
      [] r.cls = "SportsWalking" ->
            \* calories = (0.035 weight + (v 0.278)^2 / (height / 100)
            \*             * 0.029 weight) * duration * 60
            <<Mul(calories, FromInt(r.height)),
              Mul(Add(Mul(Dec(35, 3), FromInt(r.weight * r.height)),
                      Mul(Mul(Mul(Mul(v, v), Dec(278 * 278, 6)), Dec(29, 1)),
                          FromInt(r.weight))),
                  FromInt(r.duration * 60))>>
      [] r.cls = "Swimming" ->
            \* calories = (v + 1.1) * 2 * weight * duration
            <<calories,
              Mul(Add(v, Dec(11, 1)), FromInt(2 * r.weight * r.duration))>>

SpecStep(cls) == IF cls = "Swimming" THEN 138 ELSE 65

\* C7: with duration > 0, get_distance is action * LEN_STEP / 1000 with the
\* class's own step (0.65, or 1.38 for Swimming), and get_spent_calories is
\* the class's table formula at the class's own mean speed.  (With height 0
\* the SportsWalking formula divides by zero and has no value.)
C7_TableFormulas ==
    /\ (OnObject("get_distance") /\ Rec.duration > 0)
        => /\ IsNum(last.out)
           /\ REq(Mul(last.out, FromInt(100 * 1000)),
                  FromInt(Rec.action * SpecStep(Rec.cls)))
    /\ (OnObject("get_spent_calories") /\ Rec.duration > 0
            /\ Rec.cls \in Concrete)
        => IF Rec.cls = "SportsWalking" /\ Rec.height = 0
           THEN last.out = Raise("ZeroDivisionError")
           ELSE /\ IsNum(last.out)
                /\ REq(TableSides(Rec, get_mean_speed(Rec), last.out)[1],
                       TableSides(Rec, get_mean_speed(Rec), last.out)[2])

C7_Witness ==
    /\ OnObject("get_spent_calories")
    /\ Rec = Example(3)
    /\ Format3f(last.out).s = "349.252"

\* C8: no method call, show_training_info, get_message or main changes an
\* attribute of any object (the one it is called on or another), and a call
\* repeated at once returns what the first returned.
C8_NoHiddenMutation ==
    [][/\ \A i \in Slots :
            training[i].kind = "object" => training'[i] = training[i]
       /\ (/\ last'.op = last.op
           /\ last'.slot = last.slot
           /\ last.op \in Methods \cup {"get_message"})
            => last'.out = last.out]_vars

C8_Witness ==
    /\ training[1].kind = "object"
    /\ training[2].kind = "object"
    /\ training[1] # training[2]
    /\ last.op = "get_message"
    /\ last.slot = 2
    /\ last.out.kind = "str"

\* the name the specification gives each variant
SpecLabel(cls) == IF cls = "SportsWalking" THEN "Walking" ELSE cls

ShowReturns(r) ==
    r.duration > 0 /\ (r.cls = "SportsWalking" => r.height # 0)

\* the InfoMessage holds the object's duration, get_distance(),
\* get_mean_speed() and get_spent_calories(), each in its own field
Wired(m, r) ==
    /\ m.kind = "InfoMessage"
    /\ DOMAIN m = {"kind", "training_type", "duration", "distance", "speed",
                   "calories"}
    /\ m.duration = FromInt(r.duration)
    /\ m.distance = get_distance(r)
    /\ m.speed = get_mean_speed(r)
    /\ m.calories = get_spent_calories(r)

\* C9 as amended: for an object of a concrete class with duration > 0 (and a
\* height other than 0), show_training_info returns an InfoMessage whose
\* training_type is the class's name (Running, SportsWalking or Swimming) and
\* whose duration, distance, speed and calories are the object's duration,
\* get_distance(), get_mean_speed() and get_spent_calories().
C9_SummaryFields ==
    (OnObject("show_training_info") /\ Rec.cls \in Concrete /\ ShowReturns(Rec))
        => /\ Wired(last.out, Rec)
           /\ last.out.training_type = Rec.cls
           /\ info = last.out

C9_Witness ==
    /\ OnObject("show_training_info")
    /\ Rec = Example(3)
    /\ last.out.kind = "InfoMessage"
    /\ last.out.training_type = "SportsWalking"

\* C9 as stated: the label is the variant's name, Running, Walking or Swimming.
C9_Original ==
    (OnObject("show_training_info") /\ Rec.cls \in Concrete /\ ShowReturns(Rec))
        => /\ Wired(last.out, Rec)
           /\ last.out.training_type = SpecLabel(Rec.cls)
           /\ last.out.training_type \in {"Running", "Walking", "Swimming"}

\* C10 as amended: construction checks no duration; with duration = 0, for
\* each concrete class, get_mean_speed, get_spent_calories and
\* show_training_info raise ZeroDivisionError while get_distance returns a
\* number; a negative duration is not detected: get_mean_speed returns a
\* number.
C10_ZeroDuration ==
    /\ (/\ last.op = "read_package"
        /\ Code \in RecognizedCodes
        /\ Len(Data) = SpecArity(Code))
        => last.out.kind = "object"
    /\ (/\ last.op \in {"get_mean_speed", "get_spent_calories",
                        "show_training_info"}
        /\ Rec.kind = "object"
        /\ Rec.cls \in Concrete
        /\ Rec.duration = 0)
        => last.out = Raise("ZeroDivisionError")
    /\ (OnObject("get_distance") /\ Rec.cls \in Concrete /\ Rec.duration <= 0)
        => IsNum(last.out)
    /\ (OnObject("get_mean_speed") /\ Rec.cls \in Concrete /\ Rec.duration < 0)
        => IsNum(last.out)

C10_Witness ==
    /\ OnObject("show_training_info")
    /\ Rec.cls = "Swimming"
    /\ Rec.duration = 0
    /\ last.out = Raise("ZeroDivisionError")

\* C10 as stated: with duration = 0 or negative, get_mean_speed,
\* get_spent_calories and show_training_info raise and return no value.
C10_Original ==
    (/\ last.op \in {"get_mean_speed", "get_spent_calories",
                     "show_training_info"}
     /\ Rec.kind = "object"
     /\ Rec.cls \in Concrete
     /\ Rec.duration <= 0)
        => ~Returned
====
